---- MODULE Spec2Model ----
(***************************************************************************)
(* Model of src/lib.rs: usqrt (binary-search square root), is_prime        *)
(* (trial division bounded by usqrt) and next_prime (odd-candidate scan).  *)
(* The three functions are modelled at statement level over a W-bit        *)
(* unsigned integer; an arithmetic overflow panics when the build has      *)
(* overflow checks (debug profile) and wraps modulo 2^W otherwise          *)
(* (release profile).                                                      *)
(***************************************************************************)
EXTENDS Integers, FiniteSets, Sequences, TLC

\* ---------------------------------------------------------------- bounds
\* Width in bits of the modelled unsigned integer (u64 in the source).
W == 14
\* Inputs are drawn from 0..MaxN and from the TopSpan+1 largest values.
MaxN == 300
TopSpan == 6
\* Number of times a caller feeds next_prime's result back to next_prime.
MaxReapply == 1
\* Largest root k for which k*k and k*k + 1 are looked up among the inputs.
MaxRoot == 17

\* ------------------------------------------------------- machine integers
U64Max == 2^W - 1

Fits(x) == 0 <= x /\ x <= U64Max

Wrap(x) == x % (2^W)

Inputs == (0..MaxN) \cup ((U64Max - TopSpan)..U64Max)

VARIABLES
    overflow_checks, \* TRUE: overflow panics; FALSE: overflow wraps
    wrapped,         \* history: some operation has wrapped around
    entry,           \* the function the caller invoked
    arg,             \* the argument of the current top-level call
    pc,              \* position in the code
    np_n,            \* next_prime: n
    ip_n,            \* is_prime: n
    upper,           \* is_prime: upper
    us_n,            \* usqrt: n
    low, high, mid,  \* usqrt: low, high, mid
    ret,             \* u64 returned to the caller (usqrt, next_prime)
    ret_bool,        \* bool returned by is_prime
    prev,            \* result of the previous next_prime call, -1 if none
    reapplied        \* number of times the result was fed back

vars == <<overflow_checks, wrapped, entry, arg, pc, np_n, ip_n, upper, us_n,
          low, high, mid, ret, ret_bool, prev, reapplied>>

EntryPc(f) ==
    CASE f = "usqrt" -> "us_init"
      [] f = "is_prime" -> "ip_entry"
      [] f = "next_prime" -> "np_entry"

Init ==
    /\ overflow_checks \in BOOLEAN
    /\ wrapped = FALSE
    /\ entry \in {"usqrt", "is_prime", "next_prime"}
    /\ arg \in Inputs
    /\ pc = EntryPc(entry)
    /\ np_n = (IF entry = "next_prime" THEN arg ELSE 0)
    /\ ip_n = (IF entry = "is_prime" THEN arg ELSE 0)
    /\ us_n = (IF entry = "usqrt" THEN arg ELSE 0)
    /\ upper = 0
    /\ low = 0
    /\ high = 0
    /\ mid = 0
    /\ ret = 0
    /\ ret_bool = FALSE
    /\ prev = -1
    /\ reapplied = 0

\* ------------------------------------------------------------------ usqrt
\* high = mid - 1
SquareGreaterLoose(m) == m - 2
SquareGreater(m) == m - 1

\* low = mid + 1
SquareLessFar(m) == m + 2
SquareLess(m) == m + 1

\* (low + high) / 2, before the sum is reduced to the integer width
MidSum(lo, hi) == lo + hi

\* An arithmetic result r either panics or wraps.
Panics(ovf) == overflow_checks /\ ovf

Panic ==
    /\ pc' = "panicked"
    /\ UNCHANGED <<overflow_checks, wrapped, entry, arg, np_n, ip_n, upper,
                   us_n, low, high, mid, ret, ret_bool, prev, reapplied>>

\* usqrt returns v to its caller: the top-level caller or is_prime.
UsqrtReturn(v) ==
    IF entry = "usqrt"
    THEN /\ pc' = "done"
         /\ ret' = v
         /\ upper' = upper
    ELSE /\ pc' = "ip_all"
         /\ upper' = v
         /\ ret' = ret

\* let (mut low, mut high) = (1, n); let mut mid = (low + high) / 2;
UsqrtInit ==
    /\ pc = "us_init"
    /\ LET s == MidSum(1, us_n)
       IN  IF Panics(~Fits(s))
           THEN Panic
           ELSE /\ low' = 1
                /\ high' = us_n
                /\ mid' = Wrap(s) \div 2
                /\ wrapped' = (wrapped \/ ~Fits(s))
                /\ pc' = "us_while"
                /\ UNCHANGED <<overflow_checks, entry, arg, np_n, ip_n, upper,
                               us_n, ret, ret_bool, prev, reapplied>>

\* one iteration of: while low < high { ... }
UsqrtIter ==
    /\ pc = "us_while"
    /\ low < high
    /\ LET s == MidSum(low, high)
           m == Wrap(s) \div 2
           sq == m * m
           square == Wrap(sq)
           nh == SquareGreater(m)
           nl == SquareLess(m)
           ovf == \/ ~Fits(s)
                  \/ ~Fits(sq)
                  \/ (square > us_n /\ ~Fits(nh))
                  \/ (square < us_n /\ ~Fits(nl))
       IN  IF Panics(ovf)
           THEN Panic
           ELSE /\ mid' = m
                /\ wrapped' = (wrapped \/ ovf)
                /\ IF square = us_n
                   THEN /\ UsqrtReturn(m)
                        /\ UNCHANGED <<low, high>>
                   ELSE IF square > us_n
                   THEN /\ high' = Wrap(nh)
                        /\ UNCHANGED <<low, pc, ret, upper>>
                   ELSE /\ low' = Wrap(nl)
                        /\ UNCHANGED <<high, pc, ret, upper>>
                /\ UNCHANGED <<overflow_checks, entry, arg, np_n, ip_n, us_n,
                               ret_bool, prev, reapplied>>

\* after the loop: if mid * mid == n { mid } else { high }
UsqrtExit ==
    /\ pc = "us_while"
    /\ ~(low < high)
    /\ LET sq == mid * mid
       IN  IF Panics(~Fits(sq))
           THEN Panic
           ELSE /\ wrapped' = (wrapped \/ ~Fits(sq))
                /\ UsqrtReturn(IF Wrap(sq) = us_n THEN mid ELSE high)
                /\ UNCHANGED <<overflow_checks, entry, arg, np_n, ip_n, us_n,
                               low, high, mid, ret_bool, prev, reapplied>>

\* --------------------------------------------------------------- is_prime
\* let lower = 3;
lowerWide == 3 + 2
lower == 3

\* (lower..(upper + 1)).step_by(2).all(|maybe_divisor| n % maybe_divisor != 0)
\* end is the exclusive end of the range, upper + 1 reduced to the width.
AllOddDivisors(n, end) ==
    \A maybe_divisor \in lower..(end - 1) :
        ((maybe_divisor - lower) % 2 = 0) => (n % maybe_divisor /= 0)

\* is_prime returns b to its caller: the top-level caller or next_prime.
IsPrimeReturn(b) ==
    /\ ret_bool' = b
    /\ pc' = (IF entry = "is_prime" THEN "done" ELSE "np_ret")

\* the two early returns, then let upper = usqrt(n)
IsPrimeEntry ==
    /\ pc = "ip_entry"
    /\ IF ip_n = 2 \/ ip_n = 3
       THEN /\ IsPrimeReturn(TRUE)
            /\ us_n' = us_n
       ELSE IF ip_n % 2 = 0 \/ ip_n <= 1
       THEN /\ IsPrimeReturn(FALSE)
            /\ us_n' = us_n
       ELSE /\ us_n' = ip_n
            /\ pc' = "us_init"
            /\ ret_bool' = ret_bool
    /\ UNCHANGED <<overflow_checks, wrapped, entry, arg, np_n, ip_n, upper,
                   low, high, mid, ret, prev, reapplied>>

IsPrimeAll ==
    /\ pc = "ip_all"
    /\ LET e == upper + 1
       IN  IF Panics(~Fits(e))
           THEN Panic
           ELSE /\ wrapped' = (wrapped \/ ~Fits(e))
                /\ IsPrimeReturn(AllOddDivisors(ip_n, Wrap(e)))
                /\ UNCHANGED <<overflow_checks, entry, arg, np_n, ip_n, upper,
                               us_n, low, high, mid, ret, prev, reapplied>>

\* ------------------------------------------------------------- next_prime
\* if n % 2 == 0 { n += 1; }
OddStartSkips(n) == IF n % 2 = 0 THEN n + 1 ELSE n + 2
OddStart(n) == IF n % 2 = 0 THEN n + 1 ELSE n

\* n += 2
AdvanceFar(n) == n + 4
Advance(n) == n + 2

\* if n <= 2 { return 2; }  if n % 2 == 0 { n += 1; }
NextPrimeEntry ==
    /\ pc = "np_entry"
    /\ IF np_n <= 2
       THEN /\ ret' = 2
            /\ pc' = "done"
            /\ UNCHANGED <<overflow_checks, wrapped, entry, arg, np_n, ip_n,
                           upper, us_n, low, high, mid, ret_bool, prev,
                           reapplied>>
       ELSE LET c == OddStart(np_n)
            IN  IF Panics(~Fits(c))
                THEN Panic
                ELSE /\ np_n' = Wrap(c)
                     /\ wrapped' = (wrapped \/ ~Fits(c))
                     /\ pc' = "np_while"
                     /\ UNCHANGED <<overflow_checks, entry, arg, ip_n, upper,
                                    us_n, low, high, mid, ret, ret_bool, prev,
                                    reapplied>>

\* while !is_prime(n): the call
NextPrimeWhile ==
    /\ pc = "np_while"
    /\ ip_n' = np_n
    /\ pc' = "ip_entry"
    /\ UNCHANGED <<overflow_checks, wrapped, entry, arg, np_n, upper, us_n,
                   low, high, mid, ret, ret_bool, prev, reapplied>>

\* is_prime(n) was false: n += 2
NextPrimeAdvance ==
    /\ pc = "np_ret"
    /\ ~ret_bool
    /\ LET c == Advance(np_n)
       IN  IF Panics(~Fits(c))
           THEN Panic
           ELSE /\ np_n' = Wrap(c)
                /\ wrapped' = (wrapped \/ ~Fits(c))
                /\ pc' = "np_while"
                /\ UNCHANGED <<overflow_checks, entry, arg, ip_n, upper, us_n,
                               low, high, mid, ret, ret_bool, prev, reapplied>>

\* is_prime(n) was true: the loop ends and n is returned
NextPrimeReturn ==
    /\ pc = "np_ret"
    /\ ret_bool
    /\ ret' = np_n
    /\ pc' = "done"
    /\ UNCHANGED <<overflow_checks, wrapped, entry, arg, np_n, ip_n, upper,
                   us_n, low, high, mid, ret_bool, prev, reapplied>>

\* The caller passes next_prime's result to next_prime again.
Reapply ==
    /\ pc = "done"
    /\ entry = "next_prime"
    /\ reapplied < MaxReapply
    /\ reapplied' = reapplied + 1
    /\ prev' = ret
    /\ arg' = ret
    /\ np_n' = ret
    /\ pc' = "np_entry"
    /\ UNCHANGED <<overflow_checks, wrapped, entry, ip_n, upper, us_n, low,
                   high, mid, ret, ret_bool>>

Next ==
    \/ UsqrtInit
    \/ UsqrtIter
    \/ UsqrtExit
    \/ IsPrimeEntry
    \/ IsPrimeAll
    \/ NextPrimeEntry
    \/ NextPrimeWhile
    \/ NextPrimeAdvance
    \/ NextPrimeReturn
    \/ Reapply

Spec == Init /\ [][Next]_vars

TypeOK ==
    /\ pc \in {"us_init", "us_while", "ip_entry", "ip_all", "np_entry",
               "np_while", "np_ret", "done", "panicked"}
    /\ Fits(low) /\ Fits(high) /\ Fits(mid) /\ Fits(upper)
    /\ Fits(np_n) /\ Fits(ip_n) /\ Fits(us_n) /\ Fits(ret) /\ Fits(arg)

\* ----------------------------------------------------------- properties
\* Brute-force oracle: n has no divisor strictly between 1 and n.
Prime(n) == n >= 2 /\ \A d \in 2..(n - 1) : n % d /= 0

\* A call of f has returned and no operation of the run wrapped around.
Returned(f) == pc = "done" /\ entry = f /\ ~wrapped

\* C1: with exact arithmetic, next_prime(n) is the smallest prime p >= n:
\* it is prime, it is >= n, no prime lies in n..p-1, and it is 2 for n <= 2.
C1_NextPrimeIsSmallestPrimeAtOrAbove ==
    Returned("next_prime") =>
        /\ Prime(ret)
        /\ ret >= arg
        /\ \A q \in arg..(ret - 1) : ~Prime(q)
        /\ (arg <= 2 => ret = 2)

\* C1 witness: next_prime returned after advancing past two composite odds.
C1_Witness ==
    /\ Returned("next_prime")
    /\ prev = -1
    /\ arg % 2 = 1
    /\ ret >= arg + 4

\* C2: with exact arithmetic, is_prime(n) is true iff n is prime.
C2_IsPrimeIffPrime ==
    Returned("is_prime") => (ret_bool <=> Prime(arg))

\* C2 witness: is_prime rejected an odd composite by trial division.
C2_Witness ==
    /\ Returned("is_prime")
    /\ arg % 2 = 1
    /\ arg > 3
    /\ upper >= 3
    /\ ~ret_bool

\* C3 (as stated): usqrt(n) is the ceiling of the square root of n:
\* usqrt(n)^2 >= n, and (usqrt(n) - 1)^2 < n when usqrt(n) > 0.
C3_UsqrtIsCeiling ==
    Returned("usqrt") =>
        /\ ret * ret >= arg
        /\ (ret > 0 => (ret - 1) * (ret - 1) < arg)

\* C4 (as stated): usqrt(k*k + 1) = k + 1 for every k >= 1.
C4_JustAboveSquareRoundsUp ==
    Returned("usqrt") =>
        \A k \in 1..MaxRoot : (arg = k * k + 1) => (ret = k + 1)

\* C5: usqrt(k*k) = k for every k, including k = 0 and k = 1, whichever of
\* the three return paths produces the result.
C5_PerfectSquaresRoundTrip ==
    Returned("usqrt") =>
        \A k \in 0..MaxRoot : (arg = k * k) => (ret = k)

\* C5 witness: a perfect square whose root was returned as the converged
\* high bound (the last mid is not the root).
C5_Witness ==
    /\ Returned("usqrt")
    /\ \E k \in 2..MaxRoot : arg = k * k /\ ret = k
    /\ mid /= ret

\* C6 (as stated): no arithmetic operation of usqrt leaves the integer
\* width, for any representable input: usqrt neither panics nor wraps.
C6_UsqrtArithmeticStaysInWidth ==
    (entry = "usqrt") => (pc /= "panicked" /\ ~wrapped)

\* C7 (as stated): next_prime ends with a result for every representable
\* input: no arithmetic operation of the call fails.
C7_NextPrimeAlwaysReturns ==
    (entry = "next_prime") => (pc /= "panicked")

\* C8: next_prime is idempotent: applied to its own result it returns that
\* result, and the candidate is not advanced.
C8_NextPrimeIdempotent ==
    (Returned("next_prime") /\ prev /= -1) => (ret = prev /\ np_n = arg)

\* C8 witness: a result above 3 was passed to next_prime again, went through
\* the primality test by trial division and came back unchanged.
C8_Witness ==
    /\ Returned("next_prime")
    /\ reapplied = 1
    /\ prev > 3
    /\ ret = prev
    /\ upper >= 3

\* C9 (as stated): every iteration of usqrt's loop either returns or picks
\* low <= mid < high and strictly decreases high - low, for every n.
C9_UsqrtLoopProgress ==
    [][(pc = "us_while" /\ low < high) =>
          \/ pc' \in {"done", "ip_all"}
          \/ /\ pc' = "us_while"
             /\ low <= mid' /\ mid' < high
             /\ high' - low' < high - low]_vars

\* C10: with exact arithmetic and n >= 1, usqrt(n) lies between the floor
\* and the ceiling of the square root: (usqrt(n) + 1)^2 > n and
\* (usqrt(n) - 1)^2 < n.  It follows from the loop invariant that values
\* below low have squares < n and values above high have squares > n, and
\* it gives is_prime an upper bound that skips no d with d*d <= n.
C10_UsqrtBetweenFloorAndCeiling ==
    /\ (Returned("usqrt") /\ arg >= 1) =>
          /\ (ret + 1) * (ret + 1) > arg
          /\ (ret - 1) * (ret - 1) < arg
    /\ (pc = "us_while" /\ ~wrapped) =>
          /\ \A v \in 1..(low - 1) : v * v < us_n
          /\ \A v \in (high + 1)..us_n : v * v > us_n
    /\ (pc = "ip_all" /\ ~wrapped) =>
          \A d \in 1..ip_n : (d * d <= ip_n) => (d <= upper)

\* C10 witness: usqrt returned the floor of a non-square's root.
C10_Witness ==
    /\ Returned("usqrt")
    /\ arg >= 1
    /\ ret * ret < arg
    /\ (ret + 1) * (ret + 1) > arg
====
